---- MODULE Spec2Model ----
(***************************************************************************)
(* A model of the SNMPv1 agent engine of package snmp: the managed-object  *)
(* registry (Agent.handlers, kept sorted by OID), the community check, the *)
(* PDU processor and the message dispatcher.                               *)
(*                                                                         *)
(* An OID is a sequence of naturals.  A Getter or a Setter is a Go         *)
(* closure; it is modelled by a record that names what the closure does    *)
(* when it is called:                                                      *)
(*   kind "value"       a Getter that returns the managed value of its OID *)
(*   kind "store"       a Setter that stores the value it is given         *)
(*   kind "typed"       returns an snmp.Error carrying `status`            *)
(*   kind "untyped"     returns an error that is not an snmp.Error         *)
(*   kind "notwritable" the closure AddRwManagedObject builds for a nil    *)
(*                      setter                                             *)
(*   kind "nil"         the nil function value                             *)
(* The values managed by the accessors live outside the agent, in `store`. *)
(***************************************************************************)
EXTENDS Integers, Sequences, FiniteSets, TLC

\* ------------------------------------------------------------------ bounds

\* The most managed objects the operator registers.
MaxHandlers == 2

\* The most variable bindings of one PDU.
MaxVars == 2

\* ------------------------------------------------- error-status constants

NoError == 0
TooBig == 1
NoSuchName == 2
BadValue == 3
GenErr == 5
NotWritable == 17

\* ------------------------------------------------------------- value sets

\* The OIDs used for registration and in requests: a node, one of its
\* children and a later sibling of the node.
Oids == { <<1>>, <<1, 3>>, <<2>> }

Null == [typ |-> "Null", n |-> 0]

IntVal(n) == [typ |-> "int", n |-> n]

\* The values a Set request carries.
SetValues == { IntVal(1), IntVal(2) }

Nil == [kind |-> "nil", status |-> NoError]

\* Errorf(status, ...): an snmp.Error value with that status.
Errorf(status) == [kind |-> "typed", status |-> status]

\* The Getter that returns the managed value.
ValueGetter == [kind |-> "value", status |-> NoError]

\* The Getters the operator registers.
Getters ==
  { ValueGetter,
    Errorf(BadValue),
    Errorf(NoError),
    [kind |-> "untyped", status |-> NoError] }

\* The Setters the operator registers.
Setters ==
  { [kind |-> "store", status |-> NoError],
    [kind |-> "untyped", status |-> NoError] }

\* Mutant of DefaultSetter: the closure returns an error that is not an
\* snmp.Error.
DefaultSetterUntyped == [kind |-> "untyped", status |-> NoError]

\* The closure AddRwManagedObject substitutes for a nil setter.
DefaultSetter == [kind |-> "notwritable", status |-> NotWritable]

\* The pairs of communities the operator configures: NewAgent's defaults
\* and one string for both.
CommunityPairs == { <<"public", "private">>, <<"secret", "secret">> }

\* The community strings requests carry.
Communities == { "public", "private", "secret" }

\* The external state before any Set.
InitStore == [o \in Oids |-> IntVal(1)]

None == [kind |-> "none"]

VARIABLES
  handlers,  \* Agent.handlers: sequence of [oid, get, set]
  public,    \* Agent.public
  private,   \* Agent.private
  store,     \* the values managed by the accessors, by OID
  call,      \* the call in progress or just returned, or None
  result,    \* what that call returned
  calls,     \* the lookups and accessor invocations that call made, in order
  registered,\* history: the arguments of every registration that succeeded
  adding,    \* an AddRwManagedObject running on another goroutine, or NotAdding
  reader,    \* a getManagedObject running on another goroutine, or NotReading
  walk       \* a manager's GetNext walk, or NoWalk

vars == <<handlers, public, private, store, call, result, calls, registered,
          adding, reader, walk>>

\* -------------------------------------------------------------- OID order

\* asn1.Oid.Cmp: zero if both OIDs are the same, negative if a precedes b
\* lexicographically (a strict prefix precedes its extensions), positive
\* otherwise.
RECURSIVE CmpFrom(_, _, _)
CmpFrom(a, b, i) ==
  IF i > Len(a) THEN Len(a) - Len(b)
  ELSE IF i > Len(b) THEN 1
  ELSE IF a[i] # b[i] THEN a[i] - b[i]
  ELSE CmpFrom(a, b, i + 1)

Cmp(a, b) == CmpFrom(a, b, 1)

\* ---------------------------------------------------------------- registry

managedObject(oid, getter, setter) == [oid |-> oid, get |-> getter, set |-> setter]

\* sortableManagedObjects.Less on two entries.
Less(x, y) == Cmp(x.oid, y.oid) < 0

\* Insert h in a sorted sequence, before the first entry it is Less than.
RECURSIVE InsertSorted(_, _)
InsertSorted(hs, h) ==
  IF hs = << >> THEN <<h>>
  ELSE IF Less(h, Head(hs)) THEN <<h>> \o hs
  ELSE <<Head(hs)>> \o InsertSorted(Tail(hs), h)

RECURSIVE InsertionSort(_)
InsertionSort(hs) ==
  IF hs = << >> THEN << >>
  ELSE InsertSorted(InsertionSort(SubSeq(hs, 1, Len(hs) - 1)), hs[Len(hs)])

\* Mutant of SortHandlers: the slice is left in the order of registration.
SortHandlersSkipped(hs) == hs

\* sort.Sort(sortableManagedObjects(hs)): the permutation of hs ordered by
\* Less.
SortHandlers(hs) == InsertionSort(hs)

\* getManagedObject: the scan of a.handlers from position i. The result is
\* [found, h]: found is FALSE for the nil pointer.
NotFound == [found |-> FALSE, h |-> managedObject(<< >>, Nil, Nil)]

RECURSIVE ScanFrom(_, _, _, _)
ScanFrom(hs, oid, next, i) ==
  IF i > Len(hs) THEN NotFound
  ELSE LET cmp == Cmp(oid, hs[i].oid)
       IN  IF (~next /\ cmp = 0) \/ (next /\ cmp < 0)
             THEN [found |-> TRUE, h |-> hs[i]]
           ELSE IF ~next /\ cmp < 0 THEN NotFound
           ELSE ScanFrom(hs, oid, next, i + 1)

\* The scan with one comparison loosened to "not greater": the exact one
\* (loose = "exact") or the successor one (loose = "next").
RECURSIVE ScanLoose(_, _, _, _, _)
ScanLoose(hs, oid, next, i, loose) ==
  IF i > Len(hs) THEN NotFound
  ELSE LET cmp == Cmp(oid, hs[i].oid)
           exact == IF loose = "exact" THEN cmp <= 0 ELSE cmp = 0
           after == IF loose = "next" THEN cmp <= 0 ELSE cmp < 0
       IN  IF (~next /\ exact) \/ (next /\ after)
             THEN [found |-> TRUE, h |-> hs[i]]
           ELSE IF ~next /\ cmp < 0 THEN NotFound
           ELSE ScanLoose(hs, oid, next, i + 1, loose)

\* Mutant of getManagedObject: an exact lookup settles for the first entry
\* that is not smaller than the query.
getManagedObjectFirstNotSmaller(hs, oid, next) == ScanLoose(hs, oid, next, 1, "exact")

\* Mutant of getManagedObject: a successor lookup also accepts the entry of
\* the query itself.
getManagedObjectOrEqual(hs, oid, next) == ScanLoose(hs, oid, next, 1, "next")

\* Mutant of getManagedObject: a successor lookup does not return at the
\* first entry after the query and ends with the last one.
getManagedObjectLastMatch(hs, oid, next) ==
  IF ~next THEN ScanFrom(hs, oid, next, 1)
  ELSE LET after == { i \in 1..Len(hs) : Cmp(oid, hs[i].oid) < 0 }
       IN  IF after = {} THEN NotFound
           ELSE [found |-> TRUE,
                 h |-> hs[CHOOSE i \in after : \A k \in after : k <= i]]

getManagedObject(hs, oid, next) == ScanFrom(hs, oid, next, 1)

\* Mutant of AddRwResult: no check that the OID is already registered.
AddRwResultUnchecked(hs, oid, getter, setter) ==
  IF getter = Nil THEN [err |-> "no getter", handlers |-> hs]
  ELSE LET s == IF setter = Nil THEN DefaultSetter ELSE setter
       IN  [err |-> "nil",
            handlers |-> SortHandlers(Append(hs, managedObject(oid, getter, s)))]

\* Mutant of AddRwResult: a registered OID is registered anew, with the
\* accessors of the new call.
AddRwResultReplace(hs, oid, getter, setter) ==
  IF getter = Nil THEN [err |-> "no getter", handlers |-> hs]
  ELSE LET s == IF setter = Nil THEN DefaultSetter ELSE setter
           kept == SelectSeq(hs, LAMBDA h : h.oid # oid)
       IN  [err |-> "nil",
            handlers |-> SortHandlers(Append(kept, managedObject(oid, getter, s)))]

\* Mutant of AddRwResult: no check that the getter is nil.
AddRwResultNilGetter(hs, oid, getter, setter) ==
  LET s == IF setter = Nil THEN DefaultSetter ELSE setter
  IN  IF getManagedObject(hs, oid, FALSE).found
        THEN [err |-> "already registered", handlers |-> hs]
      ELSE [err |-> "nil",
            handlers |-> SortHandlers(Append(hs, managedObject(oid, getter, s)))]

\* The value AddRwManagedObject returns and the handlers it leaves.
AddRwResult(hs, oid, getter, setter) ==
  IF getter = Nil THEN [err |-> "no getter", handlers |-> hs]
  ELSE LET s == IF setter = Nil THEN DefaultSetter ELSE setter
       IN  IF getManagedObject(hs, oid, FALSE).found
             THEN [err |-> "already registered", handlers |-> hs]
           ELSE [err |-> "nil",
                 handlers |-> SortHandlers(Append(hs, managedObject(oid, getter, s)))]

\* -------------------------------------------------------- access control

\* Mutant of checkCommunity: every community that is accepted may write.
checkCommunityAllWrite(pub, priv, community) ==
  IF community # pub /\ community # priv
    THEN [rw |-> FALSE, err |-> "invalid community"]
  ELSE [rw |-> TRUE, err |-> "nil"]

\* Mutant of checkCommunity: the read community is tested first, so a
\* community that is both the read and the write one may not write.
checkCommunityReadFirst(pub, priv, community) ==
  IF community = pub THEN [rw |-> FALSE, err |-> "nil"]
  ELSE IF community = priv THEN [rw |-> TRUE, err |-> "nil"]
  ELSE [rw |-> FALSE, err |-> "invalid community"]

\* Mutant of checkCommunity: the comparison ignores the case of the first
\* letter.
checkCommunityIgnoreCase(pub, priv, community) ==
  LET folded == IF community = "Public" THEN "public" ELSE community
  IN  IF folded # pub /\ folded # priv
        THEN [rw |-> FALSE, err |-> "invalid community"]
      ELSE [rw |-> folded = priv, err |-> "nil"]

\* Mutant of checkCommunity: no community is refused.
checkCommunityAcceptAll(pub, priv, community) ==
  [rw |-> community = priv, err |-> "nil"]

\* checkCommunity: [rw, err].
checkCommunity(pub, priv, community) ==
  IF community # pub /\ community # priv
    THEN [rw |-> FALSE, err |-> "invalid community"]
  ELSE [rw |-> community = priv, err |-> "nil"]

\* ---------------------------------------------------------------- messages

PduTypes ==
  { "GetRequestPdu", "GetNextRequestPdu", "GetResponsePdu", "SetRequestPdu",
    "SnmpV1TrapPdu", "GetBulkRequestPdu", "InformRequestPdu", "SnmpV2TrapPdu" }

Variable(name, value) == [Name |-> name, Value |-> value]

Pdu(type, id, status, index, variables) ==
  [type |-> type, Id |-> id, ErrorStatus |-> status, ErrorIndex |-> index,
   Variables |-> variables]

Message(version, community, pdu) ==
  [Version |-> version, Community |-> community, Pdu |-> pdu]

\* Mutant of GetResponsePdu: the PDU keeps the type of the request.
GetResponsePduUnconverted(pdu) == pdu

\* The conversion GetResponsePdu(pdu): the same fields under the response
\* type.
GetResponsePdu(pdu) == [pdu EXCEPT !.type = "GetResponsePdu"]

\* ---------------------------------------------------------------- accessors

NoErr == [kind |-> "nil", status |-> NoError]

\* The error a Getter or Setter of this kind returns.
AccessorErr(f) ==
  CASE f.kind = "typed" -> [kind |-> "Error", status |-> f.status]
    [] f.kind = "notwritable" -> [kind |-> "Error", status |-> f.status]
    [] f.kind = "untyped" -> [kind |-> "other", status |-> NoError]
    [] OTHER -> NoErr

\* h.get(oid): [value, err].
CallGet(h, oid, st) ==
  IF h.get.kind = "value" THEN [value |-> st[oid], err |-> NoErr]
  ELSE [value |-> Null, err |-> AccessorErr(h.get)]

\* h.set(oid, value): [store, err], the external state after the call.
CallSet(h, oid, value, st) ==
  IF h.set.kind = "store" THEN [store |-> [st EXCEPT ![oid] = value], err |-> NoErr]
  ELSE [store |-> st, err |-> AccessorErr(h.set)]

\* One entry of the record of what a request made the agent call.
Lookup(oid, next) == [op |-> "lookup", oid |-> oid, next |-> next, value |-> Null]

Invoke(op, oid, value) == [op |-> op, oid |-> oid, next |-> FALSE, value |-> value]

\* ------------------------------------------------------------ PDU processor

\* Mutant of StatusOf: every accessor error is reported as GenErr.
StatusOfAlwaysGenErr(err) == GenErr

\* Mutant of StatusOf: the status is read without the check that the error
\* is an snmp.Error.
StatusOfUnchecked(err) == err.status

\* The status processPdu reports for an accessor's error: the status of an
\* snmp.Error, GenErr for any other error.
StatusOf(err) == IF err.kind = "Error" THEN err.status ELSE GenErr

\* Mutant of NoSuchNameRes: the index is Go's i, without the + 1.
NoSuchNameResZeroBased(res, i) ==
  [res EXCEPT !.ErrorIndex = i - 1, !.ErrorStatus = NoSuchName]

\* The response when binding i (1-based: Go's i + 1) resolves no object.
NoSuchNameRes(res, i) ==
  [res EXCEPT !.ErrorIndex = i, !.ErrorStatus = NoSuchName]

\* The response when the accessor of binding i returns err.
AccessorErrorRes(res, i, err) ==
  [res EXCEPT !.ErrorIndex = i, !.ErrorStatus = StatusOf(err)]

\* Mutant of Accumulate: the value is filed under the requested name.
AccumulateRequested(variables, v, h, value) ==
  Append(variables, Variable(v.Name, value))

\* Mutant of Accumulate: an OID that was read already is not filed again.
AccumulateOnce(variables, v, h, value) ==
  IF \E k \in 1..Len(variables) : variables[k].Name = h.oid THEN variables
  ELSE Append(variables, Variable(h.oid, value))

\* The values read so far, with the one read for binding v from object h.
Accumulate(variables, v, h, value) == Append(variables, Variable(h.oid, value))

\* A slice header: the array it points into and its length. A PDU in memory
\* holds its Variables as a slice, and a copy of the PDU shares the array.
Slice(arr, len) == [arr |-> arr, len |-> len]

\* The elements of a slice.
Elements(arrays, slice) == SubSeq(arrays[slice.arr], 1, slice.len)

\* The arrays once the values read are appended to the local slice.
Appended(arrays, variables) == [arrays EXCEPT !.values = variables]

\* The response once every binding is processed: res.Variables = variables,
\* the slice of the values read, for a Get or GetNext.
SuccessRes(res, set, variables) ==
  IF ~set THEN [res EXCEPT !.Variables = Slice("values", Len(variables))] ELSE res

\* The response to a Set under a community that may not write.
ReadOnlySetRes(pdu) ==
  [GetResponsePdu(pdu) EXCEPT !.ErrorIndex = 1, !.ErrorStatus = NoSuchName]

\* Mutant of AccessorOid: the accessor is passed the OID of the request.
AccessorOidRequested(h, v) == v.Name

\* The OID processPdu passes to the accessor of the object h resolved for
\* binding v.
AccessorOid(h, v) == h.oid

\* Mutant of Aborts: the loop goes on after an accessor's error.
AbortsNever(err) == FALSE

\* processPdu returns at once when the accessor returned an error.
Aborts(err) == err # NoErr

\* The loop of processPdu from binding i (1-based here: Go's i + 1), with the
\* values read so far, the external state, the calls made so far and the
\* arrays in memory: pdu.Variables is read out of the array of the request,
\* which res shares until res.Variables is assigned, and the values read are
\* in the array of the local slice variables. The result is
\* [res, store, calls, arrays].
RECURSIVE processPduFrom(_, _, _, _, _, _, _, _, _)
processPduFrom(hs, pdu, next, set, i, variables, st, log, arrays) ==
  IF i > pdu.Variables.len
    THEN [res |-> SuccessRes(GetResponsePdu(pdu), set, variables),
          store |-> st, calls |-> log, arrays |-> Appended(arrays, variables)]
  ELSE
    LET v == arrays[pdu.Variables.arr][i]
        r == getManagedObject(hs, v.Name, next)
        log1 == Append(log, Lookup(v.Name, next))
    IN  IF ~r.found
          THEN [res |-> NoSuchNameRes(GetResponsePdu(pdu), i),
                store |-> st, calls |-> log1,
                arrays |-> Appended(arrays, variables)]
        ELSE
          LET h == r.h
              oid == AccessorOid(h, v)
              got == CallGet(h, oid, st)
              put == CallSet(h, oid, v.Value, st)
              err == IF set THEN put.err ELSE got.err
              st1 == IF set THEN put.store ELSE st
              log2 == Append(log1, IF set THEN Invoke("set", oid, v.Value)
                                          ELSE Invoke("get", oid, Null))
          IN  IF Aborts(err)
                THEN [res |-> AccessorErrorRes(GetResponsePdu(pdu), i, err),
                      store |-> st1, calls |-> log2,
                      arrays |-> Appended(arrays, variables)]
              ELSE processPduFrom(hs, pdu, next, set, i + 1,
                                  IF set THEN variables
                                  ELSE Accumulate(variables, v, h, got.value),
                                  st1, log2, arrays)

processPdu(hs, pdu, next, set, st, arrays) ==
  processPduFrom(hs, pdu, next, set, 1, << >>, st, << >>, arrays)

\* --------------------------------------------------------------- dispatcher

NoResponse == [Version |-> 0, Community |-> "", Pdu |-> None]

\* The memory ProcessMessage works on: the Agent a, the Message the caller
\* passes by pointer, whose Pdu.Variables is a slice of the array "request",
\* the local Message copy, not yet assigned, and the arrays: that of the
\* request and that of the values processPdu reads.
Memory(hs, pub, priv, request) ==
  [agent |-> [handlers |-> hs, public |-> pub, private |-> priv],
   request |-> [request EXCEPT
                  !.Pdu.Variables = Slice("request", Len(request.Pdu.Variables))],
   copy |-> None,
   arrays |-> [request |-> request.Pdu.Variables, values |-> << >>]]

\* The Message in a cell of memory, its variable list read out of the array
\* its slice points into.
MessageAt(mem, cell) ==
  LET m == mem[cell]
  IN  [m EXCEPT !.Pdu.Variables = Elements(mem.arrays, m.Pdu.Variables)]

\* Mutant of Assemble: the response is assembled in the Message the caller
\* passed, request.Pdu = res, and that Message is returned.
AssembleInPlace(mem, res) ==
  [mem |-> [mem EXCEPT !.request = [mem.request EXCEPT !.Pdu = res]],
   response |-> "request"]

\* copy := *request; response = &copy; response.Pdu = res: the memory after
\* these statements and the cell response points to.
Assemble(mem, res) ==
  [mem |-> [mem EXCEPT !.copy = [mem.request EXCEPT !.Pdu = res]],
   response |-> "copy"]

\* ProcessMessage returns an error and a nil response.
Rejected(err, st, mem) ==
  [response |-> NoResponse, err |-> err, store |-> st, calls |-> << >>,
   request |-> MessageAt(mem, "request"), agent |-> mem.agent]

\* Mutant of SupportedVersion: version 1 passes too.
SupportedVersionOrOne(version) == version = 0 \/ version = 1

\* The version gate of ProcessMessage: SNMPv1 only.
SupportedVersion(version) == version = 0

\* Mutant of RouteOf: an InformRequestPdu is served like a GetRequestPdu.
RouteOfInformAsGet(type) ==
  CASE type \in {"GetRequestPdu", "InformRequestPdu"} -> "get"
    [] type = "GetNextRequestPdu" -> "getnext"
    [] type = "SetRequestPdu" -> "set"
    [] OTHER -> "default"

\* Mutant of RouteOf: no case for SetRequestPdu.
RouteOfReadOnly(type) ==
  CASE type = "GetRequestPdu" -> "get"
    [] type = "GetNextRequestPdu" -> "getnext"
    [] OTHER -> "default"

\* The case of ProcessMessage's type switch that a PDU of this type takes.
RouteOf(type) ==
  CASE type = "GetRequestPdu" -> "get"
    [] type = "GetNextRequestPdu" -> "getnext"
    [] type = "SetRequestPdu" -> "set"
    [] OTHER -> "default"

\* ProcessMessage returns a response: what the caller receives and what the
\* call leaves in memory.
Responded(done, st, log) ==
  [response |-> MessageAt(done.mem, done.response), err |-> "nil",
   store |-> st, calls |-> log,
   request |-> MessageAt(done.mem, "request"), agent |-> done.mem.agent]

\* The end of ProcessMessage, with out what the dispatch of the PDU gave.
Respond(mem, out) ==
  Responded(Assemble([mem EXCEPT !.arrays = out.arrays], out.res),
            out.store, out.calls)

\* The body of ProcessMessage on the memory of the call.
ProcessMessageOn(mem, st) ==
  IF ~SupportedVersion(mem.request.Version)
    THEN Rejected("invalid SNMP version", st, mem)
  ELSE
    LET cc == checkCommunity(mem.agent.public, mem.agent.private,
                             mem.request.Community)
        pdu == mem.request.Pdu
        route == RouteOf(pdu.type)
    IN  IF cc.err # "nil" THEN Rejected(cc.err, st, mem)
        ELSE IF route = "default" THEN Rejected("PDU not supported", st, mem)
        ELSE Respond(mem,
               CASE route = "get" ->
                      processPdu(mem.agent.handlers, pdu, FALSE, FALSE, st, mem.arrays)
                 [] route = "getnext" ->
                      processPdu(mem.agent.handlers, pdu, TRUE, FALSE, st, mem.arrays)
                 [] route = "set" ->
                      IF cc.rw
                        THEN processPdu(mem.agent.handlers, pdu, FALSE, TRUE, st,
                                        mem.arrays)
                      ELSE [res |-> ReadOnlySetRes(pdu), store |-> st,
                            calls |-> << >>, arrays |-> mem.arrays])

\* Agent.ProcessMessage: [response, err, store, calls, request, agent]. The
\* response and the error are what it returns; store and calls are the
\* values and the record of calls the accessors leave; request and agent
\* are the caller's Message and the Agent as the call leaves them in memory.
ProcessMessageResult(hs, pub, priv, request, st) ==
  ProcessMessageOn(Memory(hs, pub, priv, request), st)

\* ----------------------------------------------------------------- requests

\* Variable lists of at most max bindings drawn from B.
VarLists(B, max) == UNION { [1..n -> B] : n \in 0..max }

GetBindings == { Variable(o, Null) : o \in Oids }

SetBindings == { Variable(o, v) : o \in Oids, v \in SetValues }

\* The request identifier, error status and error index a request PDU
\* carries: the usual zeroes, and fields a manager filled otherwise.
Headers == { <<1, NoError, 0>>, <<2, TooBig, 2>> }

\* Get and GetNext requests with up to max bindings, under the communities
\* cs and with the headers hds.
Reads(cs, hds, max) ==
  { Message(0, c, Pdu(t, hd[1], hd[2], hd[3], vs)) :
      c \in cs, t \in {"GetRequestPdu", "GetNextRequestPdu"},
      hd \in hds, vs \in VarLists(GetBindings, max) }

\* Set requests with up to max bindings, under the communities cs and with
\* the headers hds.
Writes(cs, hds, max) ==
  { Message(0, c, Pdu("SetRequestPdu", hd[1], hd[2], hd[3], vs)) :
      c \in cs, hd \in hds, vs \in VarLists(SetBindings, max) }

\* Requests of the kinds the agent serves: every variable list with the
\* usual header, read under NewAgent's read community and written under its
\* write community, and every kind under every community and header with at
\* most one binding.
ServicedRequests ==
  Reads({"public"}, {<<1, NoError, 0>>}, MaxVars)
    \cup Writes({"private"}, {<<1, NoError, 0>>}, MaxVars)
    \cup Reads(Communities, Headers, 1)
    \cup Writes(Communities, Headers, 1)

\* Requests of another version or of a kind the agent does not serve.
OtherRequests ==
  { Message(ver, c, Pdu(t, 1, NoError, 0, vs)) :
      ver \in {0, 1}, c \in Communities, t \in PduTypes,
      vs \in { <<Variable(<<1>>, Null)>> } }

Requests == ServicedRequests \cup OtherRequests

\* ----------------------------------------------------------------- actions

\* No registration is running on another goroutine.
NotAdding == [active |-> FALSE, before |-> << >>, j |-> 0]

\* No lookup is running on another goroutine.
NotReading ==
  [active |-> FALSE, oid |-> << >>, next |-> FALSE, live |-> TRUE, arr |-> << >>,
   n |-> 0, i |-> 0, stable |-> {}, done |-> FALSE, r |-> NotFound]

\* No walk is under way.
NoWalk ==
  [active |-> FALSE, start |-> << >>, cursor |-> << >>, received |-> << >>,
   done |-> FALSE, status |-> NoError]

Init ==
  /\ handlers = << >>
  /\ public = "public"
  /\ private = "private"
  /\ store = InitStore
  /\ call = None
  /\ result = None
  /\ calls = << >>
  /\ registered = {}
  /\ adding = NotAdding
  /\ reader = NotReading
  /\ walk = NoWalk

\* Agent.SetCommunities
SetCommunities(p, q) ==
  /\ call = None
  /\ public' = p
  /\ private' = q
  /\ UNCHANGED <<handlers, store, call, result, calls, registered>>
  /\ UNCHANGED <<adding, reader, walk>>

\* Agent.AddRwManagedObject
AddRwManagedObject(oid, getter, setter) ==
  /\ call = None
  /\ LET r == AddRwResult(handlers, oid, getter, setter)
     IN  /\ Len(r.handlers) <= MaxHandlers
         /\ handlers' = r.handlers
         /\ call' = [kind |-> "AddRwManagedObject", oid |-> oid,
                     getter |-> getter, setter |-> setter]
         /\ result' = [kind |-> "register", err |-> r.err]
         /\ registered' = IF r.err = "nil"
                            THEN registered \cup {managedObject(oid, getter, setter)}
                            ELSE registered
  /\ UNCHANGED <<public, private, store, calls, adding, reader, walk>>

\* Agent.AddRoManagedObject
AddRoManagedObject(oid, getter) ==
  /\ call = None
  /\ LET r == AddRwResult(handlers, oid, getter, Nil)
     IN  /\ Len(r.handlers) <= MaxHandlers
         /\ handlers' = r.handlers
         /\ call' = [kind |-> "AddRoManagedObject", oid |-> oid,
                     getter |-> getter, setter |-> Nil]
         /\ result' = [kind |-> "register", err |-> r.err]
         /\ registered' = IF r.err = "nil"
                            THEN registered \cup {managedObject(oid, getter, Nil)}
                            ELSE registered
  /\ UNCHANGED <<public, private, store, calls, adding, reader, walk>>

\* Agent.ProcessMessage
ProcessMessage(request) ==
  /\ call = None
  /\ \E r \in {ProcessMessageResult(handlers, public, private, request, store)} :
         /\ call' = [kind |-> "ProcessMessage", request |-> request,
                     after |-> r.request]
         /\ result' = [kind |-> "message", response |-> r.response, err |-> r.err]
         /\ handlers' = r.agent.handlers
         /\ public' = r.agent.public
         /\ private' = r.agent.private
         /\ store' = r.store
         /\ calls' = r.calls
  /\ UNCHANGED <<registered, adding, reader, walk>>

\* The caller is done with what the call returned.
Return ==
  /\ call # None
  /\ call' = None
  /\ result' = None
  /\ calls' = << >>
  /\ UNCHANGED <<handlers, public, private, store, registered>>
  /\ UNCHANGED <<adding, reader, walk>>

Next ==
  \/ \E pq \in CommunityPairs : SetCommunities(pq[1], pq[2])
  \/ \E oid \in Oids, g \in {ValueGetter, Nil}, s \in Setters \cup {Nil} :
       AddRwManagedObject(oid, g, s)
  \/ \E oid \in Oids, g \in Getters \cup {Nil} : AddRoManagedObject(oid, g)
  \/ \E request \in Requests : ProcessMessage(request)
  \/ Return

Spec == Init /\ [][Next]_vars

\* ------------------------------------------ registration during service

\* The agent has no lock: AddRwManagedObject and getManagedObject of two
\* goroutines interleave statement by statement. The statements of the
\* registration are the append and each Swap of sort.Sort, which for a
\* slice this short is an insertion sort; the statements of the lookup are
\* the evaluation of the range expression and each iteration of the loop.

\* The OIDs registered from while requests are served.
RaceOids == Oids \cup { <<3>> }

\* The capacity of a slice that appends grew from nil to n elements.
RECURSIVE CapOf(_)
CapOf(n) == IF n <= 1 THEN n ELSE 2 * CapOf((n + 1) \div 2)

\* append(a.handlers, h) writes into the array of a.handlers when it has
\* room, and into a new array otherwise.
AppendsInPlace(hs) == Len(hs) < CapOf(Len(hs))

\* AddRwManagedObject before any request is served.
Setup(oid, setter) ==
  /\ call = None
  /\ ~adding.active
  /\ ~reader.active
  /\ LET r == AddRwResult(handlers, oid, ValueGetter, setter)
     IN  /\ r.err = "nil"
         /\ Len(r.handlers) <= MaxHandlers + 1
         /\ handlers' = r.handlers
         /\ registered' = registered \cup {managedObject(oid, ValueGetter, setter)}
  /\ UNCHANGED <<public, private, store, call, result, calls, adding, reader, walk>>

\* AddRwManagedObject on another goroutine, up to a.handlers = append(...).
\* A lookup that ranges over the array that was a.handlers keeps that array
\* when the append allocates a new one.
AddBegin(oid, setter) ==
  /\ call = None
  /\ ~adding.active
  /\ AddRwResult(handlers, oid, ValueGetter, setter).err = "nil"
  /\ Len(handlers) <= MaxHandlers + 1
  /\ LET s == IF setter = Nil THEN DefaultSetter ELSE setter
         h == managedObject(oid, ValueGetter, s)
     IN  /\ handlers' = Append(handlers, h)
         /\ adding' = [active |-> TRUE, before |-> handlers, j |-> Len(handlers) + 1]
         /\ reader' =
              IF ~reader.active THEN reader
              ELSE LET kept == IF reader.live /\ ~AppendsInPlace(handlers)
                                 THEN [reader EXCEPT !.live = FALSE, !.arr = handlers]
                               ELSE reader
                   IN  [kept EXCEPT !.stable = @ \cup {SortHandlers(Append(handlers, h))}]
         /\ registered' = registered \cup {managedObject(oid, ValueGetter, setter)}
  /\ UNCHANGED <<public, private, store, call, result, calls, walk>>

\* One Swap(j, j - 1) of the insertion sort.
AddSwap ==
  /\ adding.active
  /\ adding.j > 1
  /\ Less(handlers[adding.j], handlers[adding.j - 1])
  /\ handlers' = [handlers EXCEPT ![adding.j] = handlers[adding.j - 1],
                                  ![adding.j - 1] = handlers[adding.j]]
  /\ adding' = [adding EXCEPT !.j = @ - 1]
  /\ UNCHANGED <<public, private, store, call, result, calls, registered, reader, walk>>

\* sort.Sort is done and AddRwManagedObject returns nil.
AddEnd ==
  /\ adding.active
  /\ IF adding.j > 1 THEN ~Less(handlers[adding.j], handlers[adding.j - 1]) ELSE TRUE
  /\ adding' = NotAdding
  /\ UNCHANGED <<handlers, public, private, store, call, result, calls, registered,
                 reader, walk>>

\* getManagedObject on another goroutine: range a.handlers is evaluated,
\* once. The lookup is serialized if it returns what it returns on one of
\* the registries that stood between registrations while it ran.
LookupBegin(oid, next) ==
  /\ call = None
  /\ ~reader.active
  /\ reader' = [active |-> TRUE, oid |-> oid, next |-> next, live |-> TRUE,
                arr |-> << >>, n |-> Len(handlers), i |-> 1,
                stable |-> IF adding.active
                             THEN {adding.before, SortHandlers(handlers)}
                           ELSE {handlers},
                done |-> FALSE, r |-> NotFound]
  /\ UNCHANGED <<handlers, public, private, store, call, result, calls, registered,
                 adding, walk>>

\* One iteration of the loop of getManagedObject, or its end.
LookupStep ==
  /\ reader.active
  /\ ~reader.done
  /\ reader' =
       IF reader.i > reader.n THEN [reader EXCEPT !.done = TRUE]
       ELSE LET h == IF reader.live THEN handlers[reader.i] ELSE reader.arr[reader.i]
                cmp == Cmp(reader.oid, h.oid)
            IN  IF (~reader.next /\ cmp = 0) \/ (reader.next /\ cmp < 0)
                  THEN [reader EXCEPT !.done = TRUE,
                                      !.r = [found |-> TRUE, h |-> h]]
                ELSE IF ~reader.next /\ cmp < 0 THEN [reader EXCEPT !.done = TRUE]
                ELSE [reader EXCEPT !.i = @ + 1]
  /\ UNCHANGED <<handlers, public, private, store, call, result, calls, registered,
                 adding, walk>>

\* The caller of getManagedObject is done with what it returned.
LookupReturn ==
  /\ reader.active
  /\ reader.done
  /\ reader' = NotReading
  /\ UNCHANGED <<handlers, public, private, store, call, result, calls, registered,
                 adding, walk>>

NextConcurrent ==
  \/ \E oid \in RaceOids, s \in {Nil} : Setup(oid, s)
  \/ \E oid \in RaceOids, s \in {Nil} : AddBegin(oid, s)
  \/ AddSwap
  \/ AddEnd
  \/ \E oid \in RaceOids, next \in BOOLEAN : LookupBegin(oid, next)
  \/ LookupStep
  \/ LookupReturn

SpecConcurrent == Init /\ [][NextConcurrent]_vars

\* ------------------------------------------------------------------ claims

\* The order on OIDs, stated without Cmp: a precedes b when, at the first
\* position where they differ, a has ended or has the smaller arc.
LexLess(a, b) ==
  \E k \in 1..(Len(a) + 1) :
    /\ \A j \in 1..(k - 1) : j <= Len(b) /\ a[j] = b[j]
    /\ \/ k = Len(a) + 1 /\ k <= Len(b)
       \/ k <= Len(a) /\ k <= Len(b) /\ a[k] < b[k]

\* The OIDs looked up: those registered from, and OIDs before, between and
\* after them.
QueryOids == Oids \cup { << >>, <<1, 2>>, <<1, 3, 0>>, <<3>> }

RegisteredOids == { e.oid : e \in registered }

\* The entry a successful registration e leaves in the registry.
EntryOf(e) ==
  managedObject(e.oid, e.get, IF e.set = Nil THEN DefaultSetter ELSE e.set)

\* The registrations an exact lookup of q is to resolve.
ExactOf(q) == { e \in registered : e.oid = q }

\* The registrations a successor lookup of q is to resolve: those of the
\* least registered OID after q.
NextOf(q) ==
  { e \in registered :
      /\ LexLess(q, e.oid)
      /\ \A f \in registered : LexLess(q, f.oid) => ~LexLess(f.oid, e.oid) }

IsMessage(c) == c.kind = "ProcessMessage"

\* The registry is as a sequence of registration calls left it: no request
\* is being answered (a request does not touch the registry).
AfterRegistrations == ~IsMessage(call)

\* C1: after any sequence of registration calls, an exact lookup of any OID
\* finds an entry iff that very OID was registered with success, and the
\* entry found is the one registered under it: never a registered prefix or
\* extension, and never hidden by the early break.
C1_ExactLookup ==
  AfterRegistrations =>
    \A q \in QueryOids :
      LET r == getManagedObject(handlers, q, FALSE)
      IN  /\ r.found <=> ExactOf(q) # {}
          /\ r.found => r.h \in { EntryOf(e) : e \in ExactOf(q) }

\* C1 witness: <<1, 3>> and <<2>> are registered and <<1>> is not; the
\* lookup of <<1>> stops at its extension, the lookup of <<2>> passes it.
C1_Witness ==
  /\ AfterRegistrations
  /\ RegisteredOids = { <<1, 3>>, <<2>> }
  /\ ~getManagedObject(handlers, <<1>>, FALSE).found
  /\ getManagedObject(handlers, <<2>>, FALSE).h.oid = <<2>>

\* C2: after any sequence of registration calls, a successor lookup of any
\* OID q finds the entry of the least registered OID strictly after q, and
\* nothing exactly when no registered OID is after q; it never finds the
\* entry of q itself.
C2_NextLookup ==
  AfterRegistrations =>
    \A q \in QueryOids :
      LET r == getManagedObject(handlers, q, TRUE)
      IN  /\ r.found <=> \E o \in RegisteredOids : LexLess(q, o)
          /\ r.found => r.h \in { EntryOf(e) : e \in NextOf(q) }
          /\ r.found => r.h.oid # q

\* C2 witness: <<1>> and <<1, 3>> are registered; the successor of <<1>> is
\* <<1, 3>>, not <<1>>, and the greatest OID has no successor.
C2_Witness ==
  /\ AfterRegistrations
  /\ RegisteredOids = { <<1>>, <<1, 3>> }
  /\ getManagedObject(handlers, <<1>>, TRUE).h.oid = <<1, 3>>
  /\ getManagedObject(handlers, << >>, TRUE).h.oid = <<1>>
  /\ ~getManagedObject(handlers, <<1, 3>>, TRUE).found

\* C3: the registry is in strictly ascending OID order in every reachable
\* state.
C3_Sorted ==
  \A i, j \in 1..Len(handlers) :
    i < j => LexLess(handlers[i].oid, handlers[j].oid)

IsRegistration(c) == c.kind \in { "AddRwManagedObject", "AddRoManagedObject" }

\* C3 witness: a registration has just put an OID before one registered
\* earlier.
C3_Witness ==
  /\ IsRegistration(call)
  /\ result.err = "nil"
  /\ Len(handlers) = 2
  /\ handlers[1].oid = call.oid

\* C4: registering an OID that is already registered returns an error and
\* leaves the registry as it was: the same entries in the same order, each
\* with the accessors it had.
C4_DuplicateRejected ==
  [][(/\ IsRegistration(call')
      /\ \E i \in 1..Len(handlers) : handlers[i].oid = call'.oid)
     => (result'.err # "nil" /\ handlers' = handlers)]_vars

\* C4 witness: a registration of a registered OID, with a getter that
\* differs from the registered one, has been rejected.
C4_Witness ==
  /\ IsRegistration(call)
  /\ result.err = "already registered"
  /\ \E i \in 1..Len(handlers) :
       handlers[i].oid = call.oid /\ handlers[i].get # call.getter

\* ------------------------------------------------ claims about requests

\* The community passes the access check.
Authorized(c) == c = public \/ c = private

\* The call is a request of type t that passes the version and community
\* gates.
Admitted(c, t) ==
  /\ IsMessage(c)
  /\ c.request.Version = 0
  /\ Authorized(c.request.Community)
  /\ c.request.Pdu.type = t

\* The registrations binding v is to resolve under a request of type t.
Resolutions(v, t) ==
  IF t = "GetNextRequestPdu" THEN NextOf(v.Name) ELSE ExactOf(v.Name)

\* The accessor a request of type t invokes on the entry of registration e.
AccessorOf(e, t) == IF t = "SetRequestPdu" THEN EntryOf(e).set ELSE EntryOf(e).get

\* Binding v resolves and its accessor succeeds.
Succeeds(v, t) ==
  \E e \in Resolutions(v, t) : AccessorOf(e, t).kind \in {"value", "store"}

\* Binding i of the variable list vs is the first to fail, every one before
\* it having resolved and succeeded.
FirstAt(vs, i, t) == \A j \in 1..(i - 1) : Succeeds(vs[j], t)

\* The response is an error response for binding i with this status, and
\* carries the request's own variable list.
ErrorResponse(status, i) ==
  /\ result.err = "nil"
  /\ result.response.Pdu.ErrorStatus = status
  /\ result.response.Pdu.ErrorIndex = i
  /\ result.response.Pdu.Variables = call.request.Pdu.Variables

\* C5: in a Get or GetNext PDU whose binding i is the first that resolves no
\* entry, the bindings before it having been read with success, the response
\* has NoSuchName, error index i and the request's original variable list.
C5_NoSuchName ==
  \A t \in {"GetRequestPdu", "GetNextRequestPdu"} :
    Admitted(call, t) =>
      \A i \in 1..Len(call.request.Pdu.Variables) :
        LET vs == call.request.Pdu.Variables
        IN  (FirstAt(vs, i, t) /\ Resolutions(vs[i], t) = {})
              => ErrorResponse(NoSuchName, i)

\* C5 witness: a Get whose first binding was read and whose second names an
\* unregistered OID has been answered.
C5_Witness ==
  /\ Admitted(call, "GetRequestPdu")
  /\ Len(call.request.Pdu.Variables) = 2
  /\ Succeeds(call.request.Pdu.Variables[1], "GetRequestPdu")
  /\ Resolutions(call.request.Pdu.Variables[2], "GetRequestPdu") = {}
  /\ Len(calls) = 3
  /\ result.response.Pdu.ErrorIndex = 2

\* C6: a Get under a valid community whose OIDs (at least one) are all
\* registered with getters that succeed is answered with NoError, error
\* index 0 and, in request order, each requested OID with the value its
\* getter returned.
C6_GetSucceeds ==
  Admitted(call, "GetRequestPdu") =>
    LET vs == call.request.Pdu.Variables
    IN  (Len(vs) >= 1 /\ \A i \in 1..Len(vs) : Succeeds(vs[i], "GetRequestPdu"))
          => /\ result.err = "nil"
             /\ result.response.Pdu.ErrorStatus = NoError
             /\ result.response.Pdu.ErrorIndex = 0
             /\ Len(result.response.Pdu.Variables) = Len(vs)
             /\ \A i \in 1..Len(vs) :
                  result.response.Pdu.Variables[i]
                    = Variable(vs[i].Name, store[vs[i].Name])

\* C7: a GetNext whose bindings all have a successor with a getter that
\* succeeds is answered, binding by binding, with the successor's OID (not
\* the requested one) and the value of the successor's getter.
C7_GetNextResolved ==
  Admitted(call, "GetNextRequestPdu") =>
    LET vs == call.request.Pdu.Variables
    IN  (\A i \in 1..Len(vs) : Succeeds(vs[i], "GetNextRequestPdu"))
          => /\ result.err = "nil"
             /\ Len(result.response.Pdu.Variables) = Len(vs)
             /\ \A i \in 1..Len(vs) :
                  \E e \in NextOf(vs[i].Name) :
                    result.response.Pdu.Variables[i] = Variable(e.oid, store[e.oid])

\* C7 witness: <<1, 3>> is the only registered OID, its value has been set,
\* and a GetNext of its prefix <<1>> has returned it.
C7_Witness ==
  /\ Admitted(call, "GetNextRequestPdu")
  /\ RegisteredOids = { <<1, 3>> }
  /\ store[<<1, 3>>] # store[<<1>>]
  /\ call.request.Pdu.Variables = <<Variable(<<1>>, Null)>>
  /\ result.response.Pdu.Variables = <<Variable(<<1, 3>>, store[<<1, 3>>])>>

\* The types served under the community of the call: Set only under the
\* community that may write.
ProcessedTypes(c) ==
  {"GetRequestPdu", "GetNextRequestPdu"}
    \cup (IF IsMessage(c) /\ c.request.Community = private
            THEN {"SetRequestPdu"} ELSE {})

\* C8: when the accessor of binding i is the first to fail and returns an
\* snmp.Error with status s, the response has status s, error index i and
\* the request's original variable list.
C8_TypedError ==
  \A t \in ProcessedTypes(call) :
    Admitted(call, t) =>
      \A i \in 1..Len(call.request.Pdu.Variables) :
        LET vs == call.request.Pdu.Variables
        IN  \A e \in Resolutions(vs[i], t) :
              (FirstAt(vs, i, t) /\ AccessorOf(e, t).kind \in {"typed", "notwritable"})
                => ErrorResponse(AccessorOf(e, t).status, i)

\* C8 witness: a Get whose first binding was read and whose second has a
\* getter that returns an snmp.Error of status BadValue has been answered.
C8_Witness ==
  /\ Admitted(call, "GetRequestPdu")
  /\ Len(call.request.Pdu.Variables) = 2
  /\ Succeeds(call.request.Pdu.Variables[1], "GetRequestPdu")
  /\ \E e \in ExactOf(call.request.Pdu.Variables[2].Name) : e.get = Errorf(BadValue)
  /\ result.response.Pdu.ErrorStatus = BadValue
  /\ Len(calls) = 4

\* C9: when the accessor of binding i is the first to fail and returns an
\* error that is not an snmp.Error, the response has GenErr, error index i
\* and the request's original variable list.
C9_UntypedError ==
  \A t \in ProcessedTypes(call) :
    Admitted(call, t) =>
      \A i \in 1..Len(call.request.Pdu.Variables) :
        LET vs == call.request.Pdu.Variables
        IN  \A e \in Resolutions(vs[i], t) :
              (FirstAt(vs, i, t) /\ AccessorOf(e, t).kind = "untyped")
                => ErrorResponse(GenErr, i)

\* C9 witness: a Set whose first binding was stored and whose second has a
\* setter that returns a plain error has been answered.
C9_Witness ==
  /\ Admitted(call, "SetRequestPdu")
  /\ call.request.Community = private
  /\ Len(call.request.Pdu.Variables) = 2
  /\ Succeeds(call.request.Pdu.Variables[1], "SetRequestPdu")
  /\ \E e \in ExactOf(call.request.Pdu.Variables[2].Name) : e.set.kind = "untyped"
  /\ result.response.Pdu.ErrorIndex = 2
  /\ Len(calls) = 4

\* The request is a Set of the supported version under the community that
\* may read and may not write.
ReadOnlySet(c) ==
  /\ IsMessage(c)
  /\ c.request.Version = 0
  /\ c.request.Pdu.type = "SetRequestPdu"
  /\ c.request.Community = public
  /\ c.request.Community # private

\* C10: a Set under the read-only community makes no lookup and invokes no
\* accessor, leaves the managed values as they were, and is answered with
\* NoSuchName and error index 1, whatever OIDs it names.
C10_ReadOnlySet ==
  [][ReadOnlySet(call')
       => /\ calls' = << >>
          /\ store' = store
          /\ result'.err = "nil"
          /\ result'.response.Pdu.ErrorStatus = NoSuchName
          /\ result'.response.Pdu.ErrorIndex = 1]_vars

\* C10 witness: a Set under the read-only community of a new value for an
\* object registered with a storing setter has been answered.
C10_Witness ==
  /\ ReadOnlySet(call)
  /\ Len(call.request.Pdu.Variables) = 1
  /\ \E e \in ExactOf(call.request.Pdu.Variables[1].Name) :
       /\ e.set.kind = "store"
       /\ store[e.oid] # call.request.Pdu.Variables[1].Value
  /\ result.response.Pdu.ErrorIndex = 1

\* --------------------------------------------- claims about the gates

\* The community strings checked: those requests carry, one that differs
\* from the read community in case only, and a prefix of it.
CheckedCommunities == Communities \cup { "Public", "publi", "" }

\* C11: checkCommunity(c) fails iff c equals neither configured community
\* (exact, case-sensitive); otherwise it succeeds, writable iff c equals
\* the write community, also when both communities are the same string.
C11_CheckCommunity ==
  AfterRegistrations =>
    \A c \in CheckedCommunities :
      LET r == checkCommunity(public, private, c)
      IN  /\ r.err # "nil" <=> (c # public /\ c # private)
          /\ r.err = "nil" =>
               /\ c = private => r.rw
               /\ (c = public /\ c # private) => ~r.rw

\* C11 witness: both communities are "secret"; "secret" is accepted and may
\* write, NewAgent's communities are refused.
C11_Witness ==
  /\ public = "secret"
  /\ private = "secret"
  /\ checkCommunity(public, private, "secret").rw
  /\ checkCommunity(public, private, "secret").err = "nil"
  /\ checkCommunity(public, private, "public").err # "nil"

\* The request was turned away: an error, no response message, and no
\* lookup or accessor call made for it.
TurnedAway ==
  /\ result.err # "nil"
  /\ result.response = NoResponse
  /\ calls = << >>

\* The types ProcessMessage serves.
RequestTypes == { "GetRequestPdu", "GetNextRequestPdu", "SetRequestPdu" }

\* C12: a request whose community is neither the read nor the write
\* community gets an error and no response, whatever its PDU type, and no
\* lookup or accessor call is made for it.
C12_InvalidCommunity ==
  (IsMessage(call) /\ ~Authorized(call.request.Community)) => TurnedAway

\* C12 witness: with "secret" as both communities, a Set of a writable
\* registered OID under "private" has been refused for its community.
C12_Witness ==
  /\ IsMessage(call)
  /\ public = "secret"
  /\ call.request.Version = 0
  /\ call.request.Community = "private"
  /\ call.request.Pdu.type = "SetRequestPdu"
  /\ Len(call.request.Pdu.Variables) = 1
  /\ \E e \in ExactOf(call.request.Pdu.Variables[1].Name) : e.set.kind = "store"
  /\ result.err = "invalid community"
  /\ TurnedAway

\* C13: a request whose version is not 0 gets the version error and no
\* response, and no lookup or accessor call is made for it, whatever its
\* community and PDU type; a request of version 0 never gets the version
\* error.
C13_VersionGate ==
  IsMessage(call) =>
    /\ call.request.Version # 0 =>
         (result.err = "invalid SNMP version" /\ TurnedAway)
    /\ call.request.Version = 0 => result.err # "invalid SNMP version"

\* C13 witness: a version 1 Get of a registered OID under the read
\* community has been refused for its version.
C13_Witness ==
  /\ IsMessage(call)
  /\ call.request.Version = 1
  /\ call.request.Community = public
  /\ call.request.Pdu.type = "GetRequestPdu"
  /\ Len(call.request.Pdu.Variables) = 1
  /\ ExactOf(call.request.Pdu.Variables[1].Name) # {}
  /\ result.err = "invalid SNMP version"
  /\ TurnedAway

\* C14: a request of version 0 under a valid community is served, with a
\* response and no error, exactly when its PDU is a Get, GetNext or Set
\* request; with any other PDU type it gets an error and no response, and no
\* lookup or accessor call is made for it.
C14_UnsupportedPdu ==
  \A t \in PduTypes :
    Admitted(call, t) =>
      IF t \in RequestTypes
        THEN result.err = "nil" /\ result.response # NoResponse
        ELSE result.err = "PDU not supported" /\ TurnedAway

\* C14 witness: an InformRequestPdu naming a registered OID, under the write
\* community, has been refused for its type.
C14_Witness ==
  /\ Admitted(call, "InformRequestPdu")
  /\ call.request.Community = private
  /\ Len(call.request.Pdu.Variables) = 1
  /\ ExactOf(call.request.Pdu.Variables[1].Name) # {}
  /\ result.err = "PDU not supported"
  /\ TurnedAway

\* The request was answered with one response PDU.
Answered ==
  /\ result.err = "nil"
  /\ result.response # NoResponse
  /\ result.response.Pdu.type = "GetResponsePdu"

\* C15: every request of version 0 under the read or the write community is
\* answered with exactly one response PDU, and every request under another
\* community with none.
C15_OneResponse ==
  IsMessage(call) =>
    /\ (call.request.Version = 0 /\ Authorized(call.request.Community))
         => Answered
    /\ ~Authorized(call.request.Community) => result.response = NoResponse

\* C15 as the code has it: the requests answered are the Get, GetNext and
\* Set requests of version 0 under the read or the write community; a
\* request under another community is answered with none.
C15_OneResponseToRequests ==
  IsMessage(call) =>
    /\ (/\ call.request.Version = 0
        /\ Authorized(call.request.Community)
        /\ call.request.Pdu.type \in RequestTypes)
         => Answered
    /\ ~Authorized(call.request.Community) => result.response = NoResponse

\* C15 witness: a Set under the community that may only read, naming an
\* unregistered OID, has been answered with a response PDU.
C15_Witness ==
  /\ Admitted(call, "SetRequestPdu")
  /\ call.request.Community # private
  /\ Len(call.request.Pdu.Variables) = 1
  /\ ExactOf(call.request.Pdu.Variables[1].Name) = {}
  /\ Answered

\* ------------------------------------------------- claims about Set

\* The call is a Set request of version 0 under the write community.
AdmittedSet(c) == Admitted(c, "SetRequestPdu") /\ c.request.Community = private

\* C16: a Set under the write community that fails at a binding after the
\* first leaves the state written by the setters as it was before the
\* request.
C16_NoPartialSet ==
  [][(/\ AdmittedSet(call')
      /\ \E i \in 2..Len(call'.request.Pdu.Variables) :
           LET vs == call'.request.Pdu.Variables
           IN  FirstAt(vs, i, "SetRequestPdu") /\ ~Succeeds(vs[i], "SetRequestPdu"))
     => store' = store]_vars

\* The setter calls of the request, in the order they were made.
SetCalls == SelectSeq(calls, LAMBDA c : c.op = "set")

\* C17: a Set under the write community whose OIDs (at least one) are all
\* registered with setters that succeed calls each binding's setter once, in
\* request order, with that binding's value, and is answered with NoError,
\* error index 0 and the request's bindings.
C17_SetSucceeds ==
  AdmittedSet(call) =>
    LET vs == call.request.Pdu.Variables
    IN  (Len(vs) >= 1 /\ \A i \in 1..Len(vs) : Succeeds(vs[i], "SetRequestPdu"))
          => /\ SetCalls = [i \in 1..Len(vs) |-> Invoke("set", vs[i].Name, vs[i].Value)]
             /\ result.err = "nil"
             /\ result.response.Pdu.ErrorStatus = NoError
             /\ result.response.Pdu.ErrorIndex = 0
             /\ result.response.Pdu.Variables = vs

\* C18: a Set under the write community whose first failing binding i names
\* an object registered with no setter is answered with NotWritable and
\* error index i, and no step changes the value of an object registered
\* with no setter.
C18_NotWritable ==
  [][/\ AdmittedSet(call') =>
          \A i \in 1..Len(call'.request.Pdu.Variables) :
            LET vs == call'.request.Pdu.Variables
            IN  \A e \in ExactOf(vs[i].Name) :
                  (FirstAt(vs, i, "SetRequestPdu") /\ e.set = Nil)
                    => ErrorResponse(NotWritable, i)'
     /\ \A e \in registered : e.set = Nil => store'[e.oid] = store[e.oid]]_vars

\* C18 witness: a Set whose first binding was stored and whose second names
\* an object registered by AddRoManagedObject has been answered with
\* NotWritable at index 2, the value of that object being the initial one.
C18_Witness ==
  /\ AdmittedSet(call)
  /\ Len(call.request.Pdu.Variables) = 2
  /\ Succeeds(call.request.Pdu.Variables[1], "SetRequestPdu")
  /\ \E e \in ExactOf(call.request.Pdu.Variables[2].Name) : e.set = Nil
  /\ call.request.Pdu.Variables[2].Value
       # InitStore[call.request.Pdu.Variables[2].Name]
  /\ store[call.request.Pdu.Variables[2].Name]
       = InitStore[call.request.Pdu.Variables[2].Name]
  /\ ErrorResponse(NotWritable, 2)

\* C19: a registration with a nil getter, by AddRoManagedObject or
\* AddRwManagedObject, returns an error and leaves the registry as it was,
\* whether or not the OID is registered.
C19_NilGetter ==
  [][(IsRegistration(call') /\ call'.getter = Nil)
     => (result'.err # "nil" /\ handlers' = handlers)]_vars

\* C19 witness: AddRwManagedObject with a nil getter and a setter, for an
\* OID that is not registered while another is, has been rejected.
C19_Witness ==
  /\ call.kind = "AddRwManagedObject"
  /\ call.getter = Nil
  /\ call.setter # Nil
  /\ call.oid \notin RegisteredOids
  /\ Len(handlers) = 1
  /\ result.err = "no getter"

\* --------------------------------------------- claims about the response

\* C20: every response carries the version and the community of the
\* request, a PDU of the response type and the request identifier of the
\* request PDU, for Get, GetNext and Set, on success and on error.
C20_ResponseEnvelope ==
  (IsMessage(call) /\ result.err = "nil") =>
    /\ call.request.Pdu.type \in RequestTypes
    /\ result.response.Version = call.request.Version
    /\ result.response.Community = call.request.Community
    /\ result.response.Pdu.type = "GetResponsePdu"
    /\ result.response.Pdu.Id = call.request.Pdu.Id

\* C20 witness: a Set of an unregistered OID with request identifier 2,
\* under "secret", has been answered with an error response that carries
\* identifier 2 and "secret".
C20_Witness ==
  /\ AdmittedSet(call)
  /\ call.request.Pdu.Id = 2
  /\ call.request.Community = "secret"
  /\ Len(call.request.Pdu.Variables) = 1
  /\ ErrorResponse(NoSuchName, 1)
  /\ result.response.Pdu.Id = 2
  /\ result.response.Community = "secret"

\* ------------------------------------ claims about concurrent registration

\* C21: a lookup that runs while AddRwManagedObject runs returns what it
\* returns on the registry before or on the registry after a registration:
\* it does not miss an OID registered before the registration began.
C21_Serialized ==
  (reader.active /\ reader.done) =>
    \E hs \in reader.stable :
      reader.r = getManagedObject(hs, reader.oid, reader.next)

\* ------------------------------------------------------------ tree walk

\* A manager walks the agent: it sends a GetNext with one binding, takes the
\* OID of the response as the OID of its next request, and stops at the
\* first response with an error status. The registry is built before the
\* walk and is not touched during it.

\* AddRoManagedObject before the walk.
WalkRegister(oid, getter) ==
  /\ ~walk.active
  /\ AddRoManagedObject(oid, getter)

\* The manager chooses where to start.
WalkStart(oid) ==
  /\ call = None
  /\ ~walk.active
  /\ walk' = [active |-> TRUE, start |-> oid, cursor |-> oid, received |-> << >>,
              done |-> FALSE, status |-> NoError]
  /\ UNCHANGED <<handlers, public, private, store, call, result, calls, registered,
                 adding, reader>>

\* The GetNext request of the walk for this OID.
WalkRequest(oid) ==
  Message(0, public, Pdu("GetNextRequestPdu", 1, NoError, 0, <<Variable(oid, Null)>>))

\* One request of the walk: ProcessMessage answers it and the manager reads
\* the response.
WalkStep ==
  /\ call = None
  /\ walk.active
  /\ ~walk.done
  /\ Len(walk.received) <= MaxHandlers + 1
  /\ \E request \in {WalkRequest(walk.cursor)} :
     \E r \in {ProcessMessageResult(handlers, public, private, request, store)} :
     LET pdu == r.response.Pdu
     IN  /\ call' = [kind |-> "ProcessMessage", request |-> request,
                     after |-> r.request]
         /\ result' = [kind |-> "message", response |-> r.response, err |-> r.err]
         /\ handlers' = r.agent.handlers
         /\ public' = r.agent.public
         /\ private' = r.agent.private
         /\ store' = r.store
         /\ calls' = r.calls
         /\ walk' = IF r.err = "nil" /\ pdu.ErrorStatus = NoError
                      THEN [walk EXCEPT !.cursor = pdu.Variables[1].Name,
                                        !.received = Append(@, pdu.Variables[1].Name)]
                    ELSE [walk EXCEPT !.done = TRUE,
                                      !.status = IF r.err = "nil" THEN pdu.ErrorStatus
                                                 ELSE GenErr]
  /\ UNCHANGED <<registered, adding, reader>>

NextWalk ==
  \/ \E oid \in Oids, g \in {ValueGetter, Errorf(BadValue)} : WalkRegister(oid, g)
  \/ \E oid \in QueryOids : WalkStart(oid)
  \/ WalkStep
  \/ Return

\* The manager sends its next request when it has read a response, and the
\* serve loop answers every request it reads.
SpecWalk == Init /\ [][NextWalk]_vars /\ WF_vars(WalkStep) /\ WF_vars(Return)

\* The OIDs of S in ascending order.
RECURSIVE Ascending(_)
Ascending(S) ==
  IF S = {} THEN << >>
  ELSE LET least == CHOOSE x \in S : \A y \in S \ {x} : LexLess(x, y)
       IN  <<least>> \o Ascending(S \ {least})

\* Every registered getter succeeds.
GettersSucceed == \A e \in registered : e.get.kind = "value"

\* C22: with getters that succeed, a walk by GetNext from any OID ends, and
\* when it has ended the manager has received the registered OIDs after the
\* start, each once, in ascending order, then NoSuchName.
C22_TreeWalk ==
  /\ [](walk.done =>
          /\ GettersSucceed =>
               /\ walk.received = Ascending({o \in RegisteredOids : LexLess(walk.start, o)})
               /\ walk.status = NoSuchName)
  /\ ((walk.active /\ GettersSucceed) ~> walk.done)

\* C22 witness: a walk from the empty OID over two registered OIDs has
\* ended with both received.
C22_Witness ==
  /\ walk.done
  /\ walk.start = << >>
  /\ GettersSucceed
  /\ Len(walk.received) = 2
  /\ walk.received[1] # walk.received[2]
  /\ walk.status = NoSuchName

\* ------------------------------------------- claims about the dispatcher

\* C23: a request under a community that is neither configured one has the
\* outcome (error, no response, no lookup or accessor call, values
\* untouched) of the same request under any other such community, however
\* close to a configured one.
C23_NonInterference ==
  (IsMessage(call) /\ ~Authorized(call.request.Community)) =>
    \A c \in CheckedCommunities :
      ~Authorized(c) =>
        LET other == [call.request EXCEPT !.Community = c]
            r == ProcessMessageResult(handlers, public, private, other, store)
        IN  /\ r.response = NoResponse
            /\ r.response = result.response
            /\ r.err = result.err
            /\ r.calls = calls
            /\ r.store = store

\* C23 witness: under NewAgent's communities a Get of a registered OID with
\* community "secret" has been turned away; "Public" and "publi" are other
\* communities that match neither.
C23_Witness ==
  /\ Admitted([call EXCEPT !.request.Community = "public"], "GetRequestPdu")
  /\ call.request.Community = "secret"
  /\ public = "public"
  /\ Len(call.request.Pdu.Variables) = 1
  /\ ExactOf(call.request.Pdu.Variables[1].Name) # {}
  /\ ~Authorized("Public")
  /\ ~Authorized("publi")
  /\ TurnedAway

\* ------------------------------------------- claims about the PDU loop

\* The lookups and accessor calls a request of type t is to make from
\* binding j on: for each binding a lookup and, if it resolves, one call of
\* the resolved entry's accessor with that entry's OID; nothing after the
\* first binding that fails.
RECURSIVE ExpectedCalls(_, _, _)
ExpectedCalls(vs, t, j) ==
  IF j > Len(vs) THEN << >>
  ELSE
    LET v == vs[j]
        lookup == Lookup(v.Name, t = "GetNextRequestPdu")
    IN  IF Resolutions(v, t) = {} THEN <<lookup>>
        ELSE
          LET e == CHOOSE x \in Resolutions(v, t) : TRUE
              invoke == IF t = "SetRequestPdu" THEN Invoke("set", e.oid, v.Value)
                        ELSE Invoke("get", e.oid, Null)
          IN  IF Succeeds(v, t) THEN <<lookup, invoke>> \o ExpectedCalls(vs, t, j + 1)
              ELSE <<lookup, invoke>>

\* C24: the bindings of a PDU are processed in request order up to the
\* first that fails: one lookup per binding, one accessor call per binding
\* that resolves, none for a binding after the first failure, and the error
\* index is the position of that first failure.
C24_InOrderAbort ==
  \A t \in ProcessedTypes(call) :
    Admitted(call, t) =>
      LET vs == call.request.Pdu.Variables
      IN  /\ calls = ExpectedCalls(vs, t, 1)
          /\ \A i \in 1..Len(vs) :
               (FirstAt(vs, i, t) /\ ~Succeeds(vs[i], t))
                 => result.response.Pdu.ErrorIndex = i

\* C24 witness: a Get of two bindings whose first getter failed has been
\* answered with error index 1: the first binding was looked up and read,
\* the second, which names an object whose getter succeeds, was not touched.
C24_Witness ==
  /\ Admitted(call, "GetRequestPdu")
  /\ Len(call.request.Pdu.Variables) = 2
  /\ Resolutions(call.request.Pdu.Variables[1], "GetRequestPdu") # {}
  /\ ~Succeeds(call.request.Pdu.Variables[1], "GetRequestPdu")
  /\ Succeeds(call.request.Pdu.Variables[2], "GetRequestPdu")
  /\ calls = << Lookup(call.request.Pdu.Variables[1].Name, FALSE),
                Invoke("get", call.request.Pdu.Variables[1].Name, Null) >>
  /\ result.response.Pdu.ErrorIndex = 1

\* C25: a Get or GetNext calls no setter and a Set no getter, and every
\* accessor call follows the lookup of its binding and is passed the OID of
\* the entry that lookup resolves: for GetNext the successor's OID.
C25_AccessorSelection ==
  \A t \in RequestTypes :
    Admitted(call, t) =>
      \A k \in 1..Len(calls) :
        calls[k].op # "lookup" =>
          /\ calls[k].op = IF t = "SetRequestPdu" THEN "set" ELSE "get"
          /\ k > 1
          /\ calls[k - 1].op = "lookup"
          /\ calls[k - 1].next = (t = "GetNextRequestPdu")
          /\ \E e \in Resolutions([Name |-> calls[k - 1].oid], t) :
               calls[k].oid = e.oid

\* C25 witness: a GetNext of an OID that is not registered has called the
\* getter of its successor, with the successor's OID, and no setter though
\* the successor has one.
C25_Witness ==
  /\ Admitted(call, "GetNextRequestPdu")
  /\ Len(call.request.Pdu.Variables) = 1
  /\ ExactOf(call.request.Pdu.Variables[1].Name) = {}
  /\ \E e \in NextOf(call.request.Pdu.Variables[1].Name) :
       /\ e.set.kind = "store"
       /\ calls = << Lookup(call.request.Pdu.Variables[1].Name, TRUE),
                     Invoke("get", e.oid, Null) >>

\* C26: ProcessMessage leaves the registry, both communities and the
\* message it was passed as they were, whatever the request and the
\* outcome; when the accessors it called changed no value, processing that
\* message again gives an equal response.
C26_Stateless ==
  [][IsMessage(call') =>
       /\ handlers' = handlers
       /\ public' = public
       /\ private' = private
       /\ call'.after = call'.request
       /\ store' = store =>
            LET again == ProcessMessageResult(handlers', public', private',
                                              call'.after, store')
            IN  again.response = result'.response /\ again.err = result'.err]_vars

\* C26 witness: a GetNext that resolved a successor has been answered; the
\* response differs from the request, which is as it was passed.
C26_Witness ==
  /\ Admitted(call, "GetNextRequestPdu")
  /\ Len(call.request.Pdu.Variables) = 2
  /\ result.err = "nil"
  /\ result.response.Pdu.ErrorStatus = NoError
  /\ result.response.Pdu.Variables # call.request.Pdu.Variables
  /\ call.after = call.request

\* ------------------------------------------ claims about registry entries

\* C27: no step removes or changes an entry: every entry stays resolvable
\* by exact lookup of its OID, with the getter and setter it had; a
\* registration that succeeds adds exactly its OID, which was not
\* registered, and any other step leaves the registry as it was.
C27_EntriesPermanent ==
  [][/\ \A i \in 1..Len(handlers) :
          getManagedObject(handlers', handlers[i].oid, FALSE)
            = [found |-> TRUE, h |-> handlers[i]]
     /\ IF IsRegistration(call') /\ result'.err = "nil"
          THEN /\ Len(handlers') = Len(handlers) + 1
               /\ \A i \in 1..Len(handlers) : handlers[i].oid # call'.oid
               /\ \E k \in 1..Len(handlers') :
                    handlers'[k]
                      = EntryOf(managedObject(call'.oid, call'.getter, call'.setter))
          ELSE handlers' = handlers]_vars

\* C27 witness: a second OID has been registered, before the first in OID
\* order, after the value of the first was set by a request; the first
\* entry is resolved with the accessors of its registration.
C27_Witness ==
  /\ IsRegistration(call)
  /\ result.err = "nil"
  /\ Len(handlers) = 2
  /\ handlers[1].oid = call.oid
  /\ store[handlers[2].oid] # InitStore[handlers[2].oid]
  /\ \E e \in ExactOf(handlers[2].oid) :
       getManagedObject(handlers, e.oid, FALSE).h = EntryOf(e)

\* ------------------------------------- claims about the response fields

\* C28: in every response the error status is NoError iff the error index
\* is 0.
C28_StatusIffIndex ==
  (IsMessage(call) /\ result.err = "nil") =>
    (result.response.Pdu.ErrorStatus = NoError
       <=> result.response.Pdu.ErrorIndex = 0)

\* C29: in every response the error index is between 0 and the number of
\* bindings of the request; stated for the requests whose own error fields
\* are zero, Set under the read community and empty variable lists included.
C29_IndexInRange ==
  (/\ IsMessage(call)
   /\ result.err = "nil"
   /\ call.request.Pdu.ErrorStatus = NoError
   /\ call.request.Pdu.ErrorIndex = 0) =>
    /\ result.response.Pdu.ErrorIndex >= 0
    /\ result.response.Pdu.ErrorIndex <= Len(call.request.Pdu.Variables)

\* C30: every response has as many bindings as the request: the request's
\* own list for a Set and on any error, and for a Get or GetNext whose
\* bindings all succeed one binding per requested binding, in request
\* order, each with the resolved OID and its value, also when an OID is
\* requested twice.
C30_SameBindingCount ==
  \A t \in RequestTypes :
    (Admitted(call, t) /\ result.err = "nil") =>
      LET vs == call.request.Pdu.Variables
          out == result.response.Pdu.Variables
          ok == \A i \in 1..Len(vs) : Succeeds(vs[i], t)
      IN  /\ Len(out) = Len(vs)
          /\ (t = "SetRequestPdu" \/ ~ok) => out = vs
          /\ (t # "SetRequestPdu" /\ ok) =>
               \A i \in 1..Len(vs) :
                 \E e \in Resolutions(vs[i], t) :
                   out[i] = Variable(e.oid, store[e.oid])

\* C30 witness: a Get that names the same registered OID twice has been
\* answered with two bindings, each with that OID and its value.
C30_Witness ==
  /\ Admitted(call, "GetRequestPdu")
  /\ Len(call.request.Pdu.Variables) = 2
  /\ call.request.Pdu.Variables[1] = call.request.Pdu.Variables[2]
  /\ Succeeds(call.request.Pdu.Variables[1], "GetRequestPdu")
  /\ Len(result.response.Pdu.Variables) = 2
  /\ result.response.Pdu.Variables[1] = result.response.Pdu.Variables[2]
  /\ result.response.Pdu.Variables[1].Value # Null

====
